---- MODULE Spec2Model ----
(***************************************************************************)
(* Model of the client-side node communication layer of walrus-service:    *)
(* crates/walrus-service/src/client/communication.rs (NodeCommunication,   *)
(* NodeResult) together with the BFT figures printed by                    *)
(* crates/walrus-service/src/cli_utils.rs.                                 *)
(*                                                                         *)
(* Three specifications share the variables below:                         *)
(*   Spec      the write pipeline store_metadata_and_pairs of every peer   *)
(*             client of one round, with the two connection limiters;      *)
(*   SpecBft   the BFT threshold arithmetic over every 16-bit shard count; *)
(*   SpecRound construction of the peer clients of a committee and the     *)
(*             aggregation of their weighted results.                      *)
(***************************************************************************)
EXTENDS Integers, Sequences, FiniteSets

\* ------------------------------------------------------------------ bounds

\* config.max_retries of the RequestRateConfig.
MaxRetries == 1

\* The capacities tried for the global connection limiter shared by the
\* peer clients and for config.max_node_connections.
Capacities == {1, 2}

\* ------------------------------------------------------- the peer clients

\* The peer clients of one round (node_index of each NodeCommunication).
Peers == {1, 2}

\* The SliverPairIndex values of the pairs a call may be handed.
PairIndices == {1, 2}

\* The pairs arguments of store_metadata_and_pairs that are tried: no pair,
\* or the pair of index 2 alone.
PairSets == {{}, {2}}

\* The first peer is handed any of these, the second no pair at all.
PairInputs == {[p \in Peers |-> IF p = 1 THEN S ELSE {}] : S \in PairSets}

Axes == {"primary", "secondary"}

\* The retried requests of one store_metadata_and_pairs: the metadata store
\* and one store_sliver future per sliver of every pair.
MetaTask(p) == <<p, "metadata", 0>>

Tasks == {<<p, "metadata", 0>> : p \in Peers}
            \cup {<<p, ax, k>> : p \in Peers, ax \in Axes, k \in PairIndices}

PeerOf(t) == t[1]

\* The semaphores: the shared global one, and one per peer client.
GlobalSem == <<"global", 0>>

NodeSem(p) == <<"node", p>>

Sems == {GlobalSem} \cup {NodeSem(p) : p \in Peers}


\* Variant: every client is handed the semaphore of node 1.
SemOfSharedNode(p, limit) == IF limit = "global" THEN GlobalSem ELSE NodeSem(1)

\* The semaphore a limit of a batch_limit chain names, for a request of peer p.
SemOf(p, limit) == IF limit = "global" THEN GlobalSem ELSE NodeSem(p)

\* The batch_limit chains, innermost limit first, as the calls are chained.
MetadataLimits == <<"global", "node">>

\* Variant: the two batch_limit calls of store_sliver chained the other way.
SliverLimitsSwapped == <<"node", "global">>

SliverLimits == <<"global", "node">>

LimitsOf(t) == IF t[2] = "metadata" THEN MetadataLimits ELSE SliverLimits

\* batch_limit(permits): acquire a permit, then await the wrapped future; so
\* the limit chained last (outermost) is acquired first and released last.
OuterLimit(t) == LimitsOf(t)[Len(LimitsOf(t))]

InnerLimit(t) == LimitsOf(t)[1]

\* ExponentialBackoff::next_delay after `failures` earlier delays: Some while
\* fewer than max_retries delays were handed out.
HasNextDelay(failures) == failures < MaxRetries

\* Variant: map_err names the primary axis whatever the sliver's type.
SliverErrorPrimary(t, e) ==
    [kind |-> "SliverStore", pair |-> t[3], axis |-> "primary", error |-> e]

\* The identity and the error a failed store_sliver is mapped to.
SliverError(t, e) == [kind |-> "SliverStore", pair |-> t[3], axis |-> t[2], error |-> e]

\* Variant: map_err wraps a fresh error and loses the cause.
MetadataErrorCauseLost(e) == [kind |-> "Metadata", pair |-> 0, axis |-> "none", error |-> 0]

\* StoreError::Metadata(e): the cause e is the NodeError of the k-th request
\* when e = k.
MetadataError(e) == [kind |-> "Metadata", pair |-> 0, axis |-> "none", error |-> e]

ConfirmationError == [kind |-> "Confirmation", pair |-> 0, axis |-> "none", error |-> 1]

OkConfirmation == [kind |-> "Ok", pair |-> 0, axis |-> "none", error |-> 0]

NoResult == [kind |-> "none", pair |-> 0, axis |-> "none", error |-> 0]

\* ----------------------------------------------------------------- state

VARIABLES
    config,     \* max_node_connections, and the permits the caller gave
                \* the global semaphore
    pairs,      \* the pairs argument of each store_metadata_and_pairs
    permits,    \* available permits of every semaphore
    held,       \* the limits whose permit each request holds
    phase,      \* where each retried request is
    calls,      \* network requests issued by each retried request
    fails,      \* failed attempts of each retried request
    stage,      \* pipeline stage of each store_metadata_and_pairs
    result,     \* the Result inside the NodeResult each operation returned
    confCalls,  \* get_and_verify_confirmation requests issued per peer
    confReply,  \* what the peer answered to the confirmation request
    reads       \* the retrieve_verified_* requests of each peer in flight

\* print_walrus_info (SpecBft)
VARIABLES
    n_shards,       \* committee.n_shards()
    f,              \* bft::max_n_faulty(n_shards), 0 until printed
    two_f_plus_1,   \* the quorum threshold printed
    min_correct     \* bft::min_n_correct(n_shards) as printed

\* One round over a committee (SpecRound)
VARIABLES
    shard_ids,      \* node.shard_ids of every committee member
    fate,           \* whether the operation on each node will succeed
    client,         \* what NodeCommunication::new returned for each node
    arrived,        \* the nodes whose NodeResult reached the aggregator
    okWeight,       \* weight of the successful results seen so far
    pendingWeight,  \* weight of the results not seen yet
    decision        \* what the aggregator declared

\* The results the operations of a client return (SpecOps)
VARIABLES
    emitted         \* the operation called last and the NodeResult it returned

\* The command line helpers (SpecPath, SpecSeparator)
VARIABLES
    path,           \* the path argument of path_or_defaults_if_exist
    defaults,       \* its defaults argument
    exists,         \* the paths that exist on the file system
    returned_path,  \* what path_or_defaults_if_exist returned
    num,            \* the argument of thousands_separator
    separated       \* the string thousands_separator returned

\* The backoff strategies of the retried calls (SpecBackoff)
VARIABLES
    generator,      \* the jitter the seeded generator yields, per seed and draw
    backoff_config, \* min_backoff, max_backoff and max_retries of the config
    strategies,     \* the ExponentialBackoff of each retried call
    delays          \* the delays each strategy has handed out

\* The remote NodeClient (SpecRemote)
VARIABLES
    node_reply,     \* what the storage node answers to each kind of request
    requests,       \* the requests issued to it, per method
    answer          \* what each method of the adapter returned

\* get_sui_read_client_from_rpc_node_or_wallet (SpecRpc)
VARIABLES
    rpc_url,                    \* the rpc_url argument
    wallet,                     \* the wallet argument
    allow_fallback_to_default,  \* the flag of the same name
    reachable,                  \* the RPC sources a connection to which succeeds
    system_found,               \* whether SuiReadClient::new succeeds on a connection
    attempted,                  \* the RPC sources a connection was attempted to
    read_client                 \* the Result returned

backoffVars == <<generator, backoff_config, strategies, delays>>

remoteVars == <<node_reply, requests, answer>>

rpcVars == <<rpc_url, wallet, allow_fallback_to_default, reachable, system_found, attempted,
             read_client>>

laterVars == <<backoffVars, remoteVars, rpcVars>>

writeVars == <<config, pairs, permits, held, phase, calls, fails, stage, result, confCalls, confReply, reads>>

opsVars == <<emitted>>

cliVars == <<path, defaults, exists, returned_path, num, separated>>

bftVars == <<n_shards, f, two_f_plus_1, min_correct>>

roundVars == <<shard_ids, fate, client, arrived, okWeight, pendingWeight, decision>>

vars == <<writeVars, bftVars, roundVars, opsVars, cliVars, laterVars>>

\* Semaphore::new(config.max_node_connections).
NewNodeSemaphore == config.max_node_connections

\* The permits each semaphore is created with.
Capacity(s) == IF s = GlobalSem THEN config.global_connections ELSE NewNodeSemaphore

\* Variant: only the primary sliver of each pair is stored.
SliverTasksPrimaryOnly(p) == {<<p, "primary", k>> : k \in pairs[p]}

\* One store_sliver future per sliver of every pair handed in.
SliverTasks(p) == {<<p, ax, k>> : ax \in Axes, k \in pairs[p]}

TasksOf(p) == {MetaTask(p)} \cup SliverTasks(p)

Phases == {"idle", "waitOuter", "waitInner", "call", "releaseOk", "releaseErr",
           "backoff", "ok", "failed", "dropped"}

Stages == {"metadata", "pairs", "confirmation", "confirming", "returned", "cancelled",
           "reading"}

\* The two read operations of a client.
ReadKinds == {"metadata", "sliver"}

TypeOK ==
    /\ config \in [max_node_connections : Capacities, global_connections : Capacities]
    /\ pairs \in PairInputs
    /\ permits \in [Sems -> Int]
    /\ held \in [Tasks -> SUBSET {"global", "node"}]
    /\ phase \in [Tasks -> Phases]
    /\ calls \in [Tasks -> 0 .. MaxRetries + 1]
    /\ fails \in [Tasks -> 0 .. MaxRetries + 1]
    /\ stage \in [Peers -> Stages]
    /\ confCalls \in [Peers -> Nat]
    /\ confReply \in [Peers -> {"none", "ok", "error"}]
    /\ reads \in [Peers -> SUBSET ReadKinds]

\* After NodeCommunication::new of every peer. A client is used either to
\* store (store_metadata_and_pairs was called: the metadata request is the
\* only live future) or to read (stage "reading": the retrieve_verified_*
\* operations are called on it, and it is handed no pairs).
WriteInit ==
    /\ config \in [max_node_connections : Capacities, global_connections : Capacities]
    /\ stage \in [Peers -> {"metadata", "reading"}]
    /\ pairs \in {ps \in PairInputs : \A p \in Peers : stage[p] = "reading" => ps[p] = {}}
    /\ permits = [s \in Sems |-> Capacity(s)]
    /\ held = [t \in Tasks |-> {}]
    /\ phase = [t \in Tasks |->
            IF t[2] = "metadata" /\ stage[PeerOf(t)] = "metadata" THEN "waitOuter" ELSE "idle"]
    /\ calls = [t \in Tasks |-> 0]
    /\ fails = [t \in Tasks |-> 0]
    /\ result = [p \in Peers |-> NoResult]
    /\ confCalls = [p \in Peers |-> 0]
    /\ confReply = [p \in Peers |-> "none"]
    /\ reads = [p \in Peers |-> {}]

\* ------------------------------------------------------------ semaphores

\* Variant: the pending futures of every peer are dropped with those of p.
PendingOfAll(p) == {t \in Tasks : phase[t] \notin {"idle", "ok", "failed", "dropped"}}

\* Dropping the futures of peer p that are still pending: every permit they
\* hold goes back to its semaphore.
Pending(p) == {t \in TasksOf(p) : phase[t] \notin {"idle", "ok", "failed", "dropped"}}

\* Variant: every dropped future gives a permit back, held or not.
HeldByAll(p, limit, ts) == Cardinality(ts)

HeldBy(p, limit, ts) == Cardinality({t \in ts : limit \in held[t]})

\* Variant: dropped futures keep their permits.
ReturnedNothing(p, ts) == permits

\* permits after the futures ts of peer p were dropped.
Returned(p, ts) ==
    [s \in Sems |->
        IF s = GlobalSem THEN permits[s] + HeldBy(p, "global", ts)
        ELSE IF s = NodeSem(p) THEN permits[s] + HeldBy(p, "node", ts)
        ELSE permits[s]]

\* -------------------------------------------------------------- requests

\* The Err utils::retry returns when no delay is left: the value of the last
\* call of the closure, which is the request issued last.
LastError(t) == calls[t]

\* First half of the outer batch_limit: acquire_owned on the outermost limit.
AcquireOuter(t) ==
    LET s == SemOf(PeerOf(t), OuterLimit(t)) IN
    /\ phase[t] = "waitOuter"
    /\ permits[s] > 0
    /\ permits' = [permits EXCEPT ![s] = @ - 1]
    /\ held' = [held EXCEPT ![t] = @ \cup {OuterLimit(t)}]
    /\ phase' = [phase EXCEPT ![t] = "waitInner"]
    /\ UNCHANGED <<bftVars, roundVars, opsVars, cliVars, laterVars, reads, config, pairs, calls, fails, stage, result, confCalls, confReply>>

\* Variant: the request is sent without the inner batch_limit.
AcquireInnerUngated(t) ==
    /\ phase[t] = "waitInner"
    /\ held' = [held EXCEPT ![t] = @ \cup {InnerLimit(t)}]
    /\ phase' = [phase EXCEPT ![t] = "call"]
    /\ calls' = [calls EXCEPT ![t] = @ + 1]
    /\ UNCHANGED <<bftVars, roundVars, opsVars, cliVars, laterVars, reads, config, pairs, permits, fails, stage, result, confCalls, confReply>>

\* The inner batch_limit: acquire_owned on the innermost limit, then the
\* request itself is sent.
AcquireInner(t) ==
    LET s == SemOf(PeerOf(t), InnerLimit(t)) IN
    /\ phase[t] = "waitInner"
    /\ permits[s] > 0
    /\ permits' = [permits EXCEPT ![s] = @ - 1]
    /\ held' = [held EXCEPT ![t] = @ \cup {InnerLimit(t)}]
    /\ phase' = [phase EXCEPT ![t] = "call"]
    /\ calls' = [calls EXCEPT ![t] = @ + 1]
    /\ UNCHANGED <<bftVars, roundVars, opsVars, cliVars, laterVars, reads, config, pairs, fails, stage, result, confCalls, confReply>>

\* Variant: the permit of the inner batch_limit is not given back.
CompleteCallKeepingPermit(t, success) ==
    /\ phase[t] = "call"
    /\ held' = [held EXCEPT ![t] = @ \ {InnerLimit(t)}]
    /\ phase' = [phase EXCEPT ![t] = IF success THEN "releaseOk" ELSE "releaseErr"]
    /\ fails' = [fails EXCEPT ![t] = IF success THEN @ ELSE @ + 1]
    /\ UNCHANGED <<bftVars, roundVars, opsVars, cliVars, laterVars, reads, config, pairs, permits, calls, stage, result, confCalls, confReply>>

\* The network call returns; the inner batch_limit drops its permit.
CompleteCall(t, success) ==
    LET s == SemOf(PeerOf(t), InnerLimit(t)) IN
    /\ phase[t] = "call"
    /\ permits' = [permits EXCEPT ![s] = @ + 1]
    /\ held' = [held EXCEPT ![t] = @ \ {InnerLimit(t)}]
    /\ phase' = [phase EXCEPT ![t] = IF success THEN "releaseOk" ELSE "releaseErr"]
    /\ fails' = [fails EXCEPT ![t] = IF success THEN @ ELSE @ + 1]
    /\ UNCHANGED <<bftVars, roundVars, opsVars, cliVars, laterVars, reads, config, pairs, calls, stage, result, confCalls, confReply>>

\* The backoff sleep of utils::retry is over: the closure is called again.
Wake(t) ==
    /\ phase[t] = "backoff"
    /\ phase' = [phase EXCEPT ![t] = "waitOuter"]
    /\ UNCHANGED <<bftVars, roundVars, opsVars, cliVars, laterVars, reads, config, pairs, permits, held, calls, fails, stage, result, confCalls, confReply>>

\* The outer batch_limit returns and drops its permit: what every ending of
\* an attempt of request t has in common.
ReleaseOuter(t, dropped) ==
    /\ permits' = [s \in Sems |->
            IF s = SemOf(PeerOf(t), OuterLimit(t))
            THEN Returned(PeerOf(t), dropped)[s] + 1
            ELSE Returned(PeerOf(t), dropped)[s]]
    /\ held' = [u \in Tasks |-> IF u = t \/ u \in dropped THEN {} ELSE held[u]]

\* Variant: batch_limit wraps utils::retry instead of the request, so that
\* the outer permit is kept over the sleep.
RetryHoldingPermit(t) ==
    /\ phase[t] = "releaseErr"
    /\ HasNextDelay(fails[t] - 1)
    /\ phase' = [phase EXCEPT ![t] = "backoff"]
    /\ UNCHANGED <<bftVars, roundVars, opsVars, cliVars, laterVars, reads, config, pairs, permits, held, calls, fails, stage, result, confCalls, confReply>>

\* utils::retry after a failed attempt with a delay left: sleep, then retry.
RetryAfterFailure(t) ==
    /\ phase[t] = "releaseErr"
    /\ HasNextDelay(fails[t] - 1)
    /\ ReleaseOuter(t, {})
    /\ phase' = [phase EXCEPT ![t] = "backoff"]
    /\ UNCHANGED <<bftVars, roundVars, opsVars, cliVars, laterVars, reads, config, pairs, calls, fails, stage, result, confCalls, confReply>>

\* store_metadata_with_retries returned Ok: store_pairs collects one
\* store_sliver future per sliver into the FuturesUnordered; with no pairs
\* its loop ends at once and the confirmation is requested next.
MetadataStored(p) ==
    LET t == MetaTask(p) IN
    /\ stage[p] = "metadata"
    /\ phase[t] = "releaseOk"
    /\ ReleaseOuter(t, {})
    /\ phase' = [u \in Tasks |->
            IF u = t THEN "ok"
            ELSE IF u \in SliverTasks(p) THEN "waitOuter"
            ELSE phase[u]]
    /\ stage' = [stage EXCEPT ![p] = IF SliverTasks(p) = {} THEN "confirmation" ELSE "pairs"]
    /\ UNCHANGED <<bftVars, roundVars, opsVars, cliVars, laterVars, reads, config, pairs, calls, fails, result, confCalls, confReply>>

\* Variant: the error of store_metadata_with_retries is not propagated and
\* the pipeline goes on to store_pairs.
MetadataFailedIgnored(p) ==
    LET t == MetaTask(p) IN
    /\ stage[p] = "metadata"
    /\ phase[t] = "releaseErr"
    /\ ~HasNextDelay(fails[t] - 1)
    /\ ReleaseOuter(t, {})
    /\ phase' = [u \in Tasks |->
            IF u = t THEN "failed"
            ELSE IF u \in SliverTasks(p) THEN "waitOuter"
            ELSE phase[u]]
    /\ stage' = [stage EXCEPT ![p] = IF SliverTasks(p) = {} THEN "confirmation" ELSE "pairs"]
    /\ UNCHANGED <<bftVars, roundVars, opsVars, cliVars, laterVars, reads, config, pairs, calls, fails, result, confCalls, confReply>>

\* Variant: store_metadata is called without utils::retry, so that its first
\* error ends the operation.
MetadataFailedUnretried(p) ==
    LET t == MetaTask(p) IN
    /\ stage[p] = "metadata"
    /\ phase[t] = "releaseErr"
    /\ ReleaseOuter(t, {})
    /\ phase' = [phase EXCEPT ![t] = "failed"]
    /\ stage' = [stage EXCEPT ![p] = "returned"]
    /\ result' = [result EXCEPT ![p] = MetadataError(calls[t])]
    /\ UNCHANGED <<bftVars, roundVars, opsVars, cliVars, laterVars, reads, config, pairs, calls, fails, confCalls, confReply>>

\* store_metadata_with_retries ran out of retries: map_err(StoreError::Metadata)?
\* ends the operation.
MetadataFailed(p) ==
    LET t == MetaTask(p) IN
    /\ stage[p] = "metadata"
    /\ phase[t] = "releaseErr"
    /\ ~HasNextDelay(fails[t] - 1)
    /\ ReleaseOuter(t, {})
    /\ phase' = [phase EXCEPT ![t] = "failed"]
    /\ stage' = [stage EXCEPT ![p] = "returned"]
    /\ result' = [result EXCEPT ![p] = MetadataError(LastError(t))]
    /\ UNCHANGED <<bftVars, roundVars, opsVars, cliVars, laterVars, reads, config, pairs, calls, fails, confCalls, confReply>>

\* Variant: store_pairs returns Ok(()) at the first sliver stored, dropping
\* the futures left in the stream.
SliverStoredFirst(t) ==
    LET p == PeerOf(t)
        rest == Pending(p) \ {t}
    IN
    /\ t \in SliverTasks(p)
    /\ stage[p] = "pairs"
    /\ phase[t] = "releaseOk"
    /\ ReleaseOuter(t, rest)
    /\ phase' = [u \in Tasks |->
            IF u = t THEN "ok" ELSE IF u \in rest THEN "dropped" ELSE phase[u]]
    /\ stage' = [stage EXCEPT ![p] = "confirmation"]
    /\ UNCHANGED <<bftVars, roundVars, opsVars, cliVars, laterVars, reads, config, pairs, calls, fails, result, confCalls, confReply>>

\* requests.next() yields Ok for sliver t; once the stream is exhausted
\* store_pairs returns Ok(()).
SliverStored(t) ==
    LET p == PeerOf(t) IN
    /\ t \in SliverTasks(p)
    /\ stage[p] = "pairs"
    /\ phase[t] = "releaseOk"
    /\ ReleaseOuter(t, {})
    /\ phase' = [phase EXCEPT ![t] = "ok"]
    /\ stage' = [stage EXCEPT ![p] =
            IF \A u \in SliverTasks(p) \ {t} : phase[u] = "ok"
            THEN "confirmation" ELSE "pairs"]
    /\ UNCHANGED <<bftVars, roundVars, opsVars, cliVars, laterVars, reads, config, pairs, calls, fails, result, confCalls, confReply>>

\* Variant: store_pairs returns the Err of sliver t and its other futures
\* go on running.
SliverFailedSiblingsRun(t) ==
    LET p == PeerOf(t) IN
    /\ t \in SliverTasks(p)
    /\ stage[p] = "pairs"
    /\ phase[t] = "releaseErr"
    /\ ~HasNextDelay(fails[t] - 1)
    /\ ReleaseOuter(t, {})
    /\ phase' = [phase EXCEPT ![t] = "failed"]
    /\ stage' = [stage EXCEPT ![p] = "returned"]
    /\ result' = [result EXCEPT ![p] = SliverError(t, calls[t])]
    /\ UNCHANGED <<bftVars, roundVars, opsVars, cliVars, laterVars, reads, config, pairs, calls, fails, confCalls, confReply>>

\* requests.next() yields the Err of sliver t, out of retries: store_pairs
\* returns it, which drops the FuturesUnordered and the futures left in it.
SliverFailed(t) ==
    LET p == PeerOf(t)
        rest == Pending(p) \ {t}
    IN
    /\ t \in SliverTasks(p)
    /\ stage[p] = "pairs"
    /\ phase[t] = "releaseErr"
    /\ ~HasNextDelay(fails[t] - 1)
    /\ ReleaseOuter(t, rest)
    /\ phase' = [u \in Tasks |->
            IF u = t THEN "failed" ELSE IF u \in rest THEN "dropped" ELSE phase[u]]
    /\ stage' = [stage EXCEPT ![p] = "returned"]
    /\ result' = [result EXCEPT ![p] = SliverError(t, LastError(t))]
    /\ UNCHANGED <<bftVars, roundVars, opsVars, cliVars, laterVars, reads, config, pairs, calls, fails, confCalls, confReply>>

\* ---------------------------------------------------------- confirmation

\* self.client.get_and_verify_confirmation(..) is sent, outside any limiter.
RequestConfirmation(p) ==
    /\ stage[p] = "confirmation"
    /\ stage' = [stage EXCEPT ![p] = "confirming"]
    /\ confCalls' = [confCalls EXCEPT ![p] = @ + 1]
    /\ UNCHANGED <<bftVars, roundVars, opsVars, cliVars, laterVars, reads, config, pairs, permits, held, phase, calls, fails, result, confReply>>

\* Variant: a failed confirmation request is sent again.
CompleteConfirmationRetried(p, success) ==
    /\ stage[p] = "confirming"
    /\ stage' = [stage EXCEPT ![p] = IF success \/ confCalls[p] > MaxRetries
                                     THEN "returned" ELSE "confirmation"]
    /\ result' = [result EXCEPT ![p] =
            IF success THEN OkConfirmation
            ELSE IF confCalls[p] > MaxRetries THEN ConfirmationError ELSE NoResult]
    /\ confReply' = [confReply EXCEPT ![p] = IF success THEN "ok" ELSE "error"]
    /\ UNCHANGED <<bftVars, roundVars, opsVars, cliVars, laterVars, reads, config, pairs, permits, held, phase, calls, fails, confCalls>>

\* The confirmation request returns: map_err(StoreError::Confirmation) is the
\* value of the async block.
CompleteConfirmation(p, success) ==
    /\ stage[p] = "confirming"
    /\ stage' = [stage EXCEPT ![p] = "returned"]
    /\ result' = [result EXCEPT ![p] = IF success THEN OkConfirmation ELSE ConfirmationError]
    /\ confReply' = [confReply EXCEPT ![p] = IF success THEN "ok" ELSE "error"]
    /\ UNCHANGED <<bftVars, roundVars, opsVars, cliVars, laterVars, reads, config, pairs, permits, held, phase, calls, fails, confCalls>>

\* ----------------------------------------------------------------- reads

\* retrieve_verified_metadata: self.client.get_and_verify_metadata(..) is
\* sent, outside any limiter and outside utils::retry.
RetrieveVerifiedMetadata(p) ==
    /\ stage[p] = "reading"
    /\ "metadata" \notin reads[p]
    /\ reads' = [reads EXCEPT ![p] = @ \cup {"metadata"}]
    /\ UNCHANGED <<bftVars, roundVars, opsVars, cliVars, laterVars, config, pairs, permits, held, phase, calls, fails, stage, result, confCalls, confReply>>

\* retrieve_verified_sliver: self.client.get_and_verify_sliver(..) is sent,
\* outside any limiter and outside utils::retry.
RetrieveVerifiedSliver(p) ==
    /\ stage[p] = "reading"
    /\ "sliver" \notin reads[p]
    /\ reads' = [reads EXCEPT ![p] = @ \cup {"sliver"}]
    /\ UNCHANGED <<bftVars, roundVars, opsVars, cliVars, laterVars, config, pairs, permits, held, phase, calls, fails, stage, result, confCalls, confReply>>

\* The request of a read operation returns, and with it the operation.
CompleteRead(p, kind) ==
    /\ kind \in reads[p]
    /\ reads' = [reads EXCEPT ![p] = @ \ {kind}]
    /\ UNCHANGED <<bftVars, roundVars, opsVars, cliVars, laterVars, config, pairs, permits, held, phase, calls, fails, stage, result, confCalls, confReply>>

\* ---------------------------------------------------------- cancellation

\* The caller drops the future of store_metadata_and_pairs while it is
\* pending: every future inside it is dropped with the permits it holds.
Cancel(p) ==
    /\ stage[p] \notin {"returned", "cancelled", "reading"}
    /\ permits' = Returned(p, Pending(p))
    /\ held' = [u \in Tasks |-> IF u \in Pending(p) THEN {} ELSE held[u]]
    /\ phase' = [u \in Tasks |-> IF u \in Pending(p) THEN "dropped" ELSE phase[u]]
    /\ stage' = [stage EXCEPT ![p] = "cancelled"]
    /\ UNCHANGED <<bftVars, roundVars, opsVars, cliVars, laterVars, reads, config, pairs, calls, fails, result, confCalls, confReply>>

\* ------------------------------------------------------- specification

Next ==
    \/ \E t \in Tasks : AcquireOuter(t)
    \/ \E t \in Tasks : AcquireInner(t)
    \/ \E t \in Tasks, success \in BOOLEAN : CompleteCall(t, success)
    \/ \E t \in Tasks : RetryAfterFailure(t)
    \/ \E t \in Tasks : Wake(t)
    \/ \E p \in Peers : MetadataStored(p)
    \/ \E p \in Peers : MetadataFailed(p)
    \/ \E t \in Tasks : SliverStored(t)
    \/ \E t \in Tasks : SliverFailed(t)
    \/ \E p \in Peers : RequestConfirmation(p)
    \/ \E p \in Peers, success \in BOOLEAN : CompleteConfirmation(p, success)
    \/ \E p \in Peers : RetrieveVerifiedMetadata(p)
    \/ \E p \in Peers : RetrieveVerifiedSliver(p)
    \/ \E p \in Peers, kind \in ReadKinds : CompleteRead(p, kind)
    \/ \E p \in Peers : Cancel(p)

\* A step that a pending store_metadata_and_pairs takes once the runtime
\* polls it: a permit is granted, a request or a sleep is over, a
\* completed future is taken from the stream, the confirmation is sent or
\* answered.
Progress ==
    \/ \E t \in Tasks : AcquireOuter(t)
    \/ \E t \in Tasks : AcquireInner(t)
    \/ \E t \in Tasks, success \in BOOLEAN : CompleteCall(t, success)
    \/ \E t \in Tasks : RetryAfterFailure(t)
    \/ \E t \in Tasks : Wake(t)
    \/ \E p \in Peers : MetadataStored(p)
    \/ \E p \in Peers : MetadataFailed(p)
    \/ \E t \in Tasks : SliverStored(t)
    \/ \E t \in Tasks : SliverFailed(t)
    \/ \E p \in Peers : RequestConfirmation(p)
    \/ \E p \in Peers, success \in BOOLEAN : CompleteConfirmation(p, success)

\* The variables of the other two specifications stay as they start.
BftIdle == n_shards = 1 /\ f = 0 /\ two_f_plus_1 = 0 /\ min_correct = 0

RoundIdle ==
    /\ shard_ids = <<>> /\ fate = <<>> /\ client = <<>> /\ arrived = {}
    /\ okWeight = 0 /\ pendingWeight = 0 /\ decision = "undecided"

\* No result was returned yet, and no helper was called.
NoEmission == [op |-> "none", node |-> 0, r |-> <<0, 0, 0, FALSE>>]

OpsIdle == emitted = NoEmission

PathIdle == path = "None" /\ defaults = <<>> /\ exists = {} /\ returned_path = "unset"

SeparatorIdle == num = 0 /\ separated = <<>>

CliIdle == PathIdle /\ SeparatorIdle

BackoffIdle ==
    /\ generator = <<>> /\ strategies = <<>> /\ delays = <<>>
    /\ backoff_config = [min_backoff |-> 1, max_backoff |-> 1, max_retries |-> 0]

RemoteIdle == node_reply = <<>> /\ requests = <<>> /\ answer = <<>>

RpcIdle ==
    /\ rpc_url = "None" /\ wallet = <<"Err", "no wallet">> /\ allow_fallback_to_default = FALSE
    /\ reachable = {} /\ system_found = FALSE /\ attempted = {}
    /\ read_client = <<"unset", "unset">>

LaterIdle == BackoffIdle /\ RemoteIdle /\ RpcIdle

Init == WriteInit /\ BftIdle /\ RoundIdle /\ OpsIdle /\ CliIdle /\ LaterIdle

Spec == Init /\ [][Next]_vars

\* The same program under a fair runtime: a pending future that can take a
\* step is polled, every request is answered and every sleep ends. The
\* caller may still drop an operation, and reads come and go as they like.
SpecLive == Init /\ [][Next]_vars /\ WF_vars(Progress)

\* ============================================== BFT thresholds (SpecBft)

\* Shard counts are NonZeroU16: 1 ..= u16::MAX, and u16 arithmetic is
\* taken modulo 2^16.
MaxShards == 65535

U16 == 65536

\* walrus_core::bft::max_n_faulty: the largest f with 3f < n.
max_n_faulty(n) == (n - 1) \div 3

\* walrus_core::bft::min_n_correct: n - f.
min_n_correct(n) == n - max_n_faulty(n)

\* Variant: the quorum threshold computed as 2 * (f + 1).
TwoFPlusOneMisplaced(faulty) == (2 * (faulty + 1)) % U16

\* two_f_plus_1 = 2 * f + 1, in u16.
TwoFPlusOne(faulty) == (2 * faulty + 1) % U16

\* Before print_walrus_info is called on a committee of n_shards shards.
BftStart ==
    /\ n_shards \in 1 .. MaxShards
    /\ f = 0 /\ two_f_plus_1 = 0 /\ min_correct = 0

\* print_walrus_info: without dev it returns before the BFT figures; with
\* dev it computes and prints f, 2f+1 and n-f.
PrintWalrusInfo(dev) ==
    /\ two_f_plus_1 = 0
    /\ IF dev
       THEN LET faulty == max_n_faulty(n_shards) IN
            /\ f' = faulty
            /\ two_f_plus_1' = TwoFPlusOne(faulty)
            /\ min_correct' = min_n_correct(n_shards)
       ELSE UNCHANGED <<f, two_f_plus_1, min_correct>>
    /\ UNCHANGED <<n_shards, writeVars, roundVars, opsVars, cliVars, laterVars>>

WriteIdle ==
    /\ config = [max_node_connections |-> 1, global_connections |-> 1]
    /\ pairs = [p \in Peers |-> {}]
    /\ permits = [s \in Sems |-> Capacity(s)]
    /\ held = [t \in Tasks |-> {}]
    /\ phase = [t \in Tasks |-> "idle"]
    /\ calls = [t \in Tasks |-> 0]
    /\ fails = [t \in Tasks |-> 0]
    /\ stage = [p \in Peers |-> "cancelled"]
    /\ result = [p \in Peers |-> NoResult]
    /\ confCalls = [p \in Peers |-> 0]
    /\ confReply = [p \in Peers |-> "none"]
    /\ reads = [p \in Peers |-> {}]

BftNext == \E dev \in BOOLEAN : PrintWalrusInfo(dev)

BftInit == BftStart /\ WriteIdle /\ RoundIdle /\ OpsIdle /\ CliIdle /\ LaterIdle

SpecBft == BftInit /\ [][BftNext]_vars

\* ================================== one round over a committee (SpecRound)

\* Number of shards of the committee (encoding_config.n_shards()).
NShards == 4

Shards == 0 .. NShards - 1

\* node_index of the members of the committees of NShards shards.
Members == {0, 1, 2}

\* node_index of the members of the round's committee.
Nodes == DOMAIN shard_ids

\* The epoch every peer client of the round is bound to.
Epoch == 7

\* The value standing for a panic of an expect().
Panic == -1

\* n_owned_shards: the length of shard_ids as a NonZeroU16; both expect()
\* calls panic otherwise.
n_owned_shards(i) ==
    LET len == Cardinality(shard_ids[i]) IN
    IF len > MaxShards \/ len = 0 THEN Panic ELSE len

\* Variant: the weight and the node index, both usize, change places.
to_node_result_swapped(i, w, res) == <<Epoch, i, w, res>>

\* to_node_result: NodeResult(self.epoch, weight, self.node_index, result).
to_node_result(i, w, res) == <<Epoch, w, i, res>>

\* Variant: weight() reads the node index, the other usize of the tuple.
weightOfIndex(r) == r[3]

\* WeightedResult::weight: field 1 of the tuple struct.
weight(r) == r[2]

\* WeightedResult::inner_result: field 3 of the tuple struct (TRUE for Ok).
inner_result(r) == r[4]

\* The NodeResult of retrieve_verified_metadata on node i.
MetadataNodeResult(i) == to_node_result(i, n_owned_shards(i), fate[i])

\* The NodeResult of retrieve_verified_sliver on node i: each sliver is
\* requested individually, so the weight is 1.
SliverNodeResult(i) == to_node_result(i, 1, fate[i])

\* Variant: the store operation weighs 1, as a sliver retrieval does.
StoreNodeResultWeightOne(i) == to_node_result(i, 1, fate[i])

\* The NodeResult of store_metadata_and_pairs on node i: the weight is the
\* number of shards the node owns, whatever the result.
StoreNodeResult(i) == to_node_result(i, n_owned_shards(i), fate[i])

\* The quorum the aggregator waits for: 2f+1 of the committee's shards.
Quorum == TwoFPlusOne(max_n_faulty(n_shards))

\* The committee of the end-to-end scenario: 10 shards, 2 on each of 5 nodes.
EvenCommittee == [i \in 0 .. 4 |-> {2 * i, 2 * i + 1}]

\* The committee is either NShards shards assigned to the members in any
\* way (a member may be left with none) or the even committee. Whether the
\* operation on a node succeeds is fixed up front.
RoundStart ==
    /\ \/ /\ n_shards = NShards
          /\ \E owner \in [Shards -> Members] :
                shard_ids = [i \in Members |-> {sh \in Shards : owner[sh] = i}]
       \/ /\ n_shards = 10
          /\ shard_ids = EvenCommittee
    /\ fate \in [DOMAIN shard_ids -> BOOLEAN]
    /\ client = [i \in DOMAIN shard_ids |-> "none"]
    /\ arrived = {}
    /\ okWeight = 0
    /\ pendingWeight = n_shards
    /\ decision = "undecided"

\* Variant: construction without the ensure! on shard_ids.
NewUnchecked(i) ==
    /\ client[i] = "none"
    /\ client' = [client EXCEPT ![i] = "ok"]
    /\ UNCHANGED <<shard_ids, fate, arrived, okWeight, pendingWeight, decision,
                   writeVars, bftVars, opsVars, cliVars, laterVars>>

\* NodeCommunication::new: ensure!(!node.shard_ids.is_empty(), InvalidConfig).
New(i) ==
    /\ client[i] = "none"
    /\ client' = [client EXCEPT ![i] =
            IF shard_ids[i] = {} THEN "InvalidConfig" ELSE "ok"]
    /\ UNCHANGED <<shard_ids, fate, arrived, okWeight, pendingWeight, decision,
                   writeVars, bftVars, opsVars, cliVars, laterVars>>

\* The aggregator's verdict on the weights seen: success once the
\* successful weight reaches the quorum, failure once the successful and
\* the pending weight together cannot reach it.
Verdict(ok, pending) ==
    IF ok >= Quorum THEN "success"
    ELSE IF ok + pending < Quorum THEN "failure"
    ELSE "undecided"

\* The operation on node i completes and its NodeResult reaches the
\* aggregator, which has not decided yet.
Receive(i) ==
    LET r == StoreNodeResult(i)
        ok == IF inner_result(r) THEN okWeight + weight(r) ELSE okWeight
        pending == pendingWeight - weight(r)
    IN
    /\ client[i] = "ok"
    /\ i \notin arrived
    /\ decision = "undecided"
    /\ arrived' = arrived \cup {i}
    /\ okWeight' = ok
    /\ pendingWeight' = pending
    /\ decision' = Verdict(ok, pending)
    /\ UNCHANGED <<shard_ids, fate, client, writeVars, bftVars, opsVars, cliVars, laterVars>>

RoundNext ==
    \/ \E i \in Nodes : New(i)
    \/ \E i \in Nodes : Receive(i)

\* print_walrus_info is not called in a round.
BftUnprinted == f = 0 /\ two_f_plus_1 = 0 /\ min_correct = 0

RoundInit == RoundStart /\ WriteIdle /\ BftUnprinted /\ OpsIdle /\ CliIdle /\ LaterIdle

SpecRound == RoundInit /\ [][RoundNext]_vars

\* ====================================== the results of a client (SpecOps)

\* NShards shards assigned to the members in any way; whether the requests
\* to a node succeed is fixed up front; no aggregator is fed.
OpsStart ==
    /\ n_shards = NShards
    /\ \E owner \in [Shards -> Members] :
            shard_ids = [i \in Members |-> {sh \in Shards : owner[sh] = i}]
    /\ fate \in [Members -> BOOLEAN]
    /\ client = [i \in Members |-> "none"]
    /\ arrived = {} /\ okWeight = 0 /\ pendingWeight = 0 /\ decision = "undecided"
    /\ emitted = NoEmission

\* An operation of the client of node i returns r.
Return(i, operation, r) ==
    /\ client[i] = "ok"
    /\ emitted' = [op |-> operation, node |-> i, r |-> r]
    /\ UNCHANGED <<roundVars, writeVars, bftVars, cliVars, laterVars>>

ReturnMetadata(i) == Return(i, "retrieve_verified_metadata", MetadataNodeResult(i))

ReturnSliver(i) == Return(i, "retrieve_verified_sliver", SliverNodeResult(i))

ReturnStore(i) == Return(i, "store_metadata_and_pairs", StoreNodeResult(i))

OpsNext ==
    \/ \E i \in Nodes : New(i)
    \/ \E i \in Nodes : ReturnMetadata(i)
    \/ \E i \in Nodes : ReturnSliver(i)
    \/ \E i \in Nodes : ReturnStore(i)

OpsInit == OpsStart /\ WriteIdle /\ BftUnprinted /\ CliIdle /\ LaterIdle

SpecOps == OpsInit /\ [][OpsNext]_vars

\* ============================= path_or_defaults_if_exist (SpecPath)

\* The longest list of defaults handed in.
MaxDefaults == 3

\* The paths there are; "None" is Option::None.
Paths == {"a", "b", "c"}

\* Variant: the loop without its break: a later default overrides the path.
RECURSIVE path_or_last_default(_, _)
path_or_last_default(pth, ds) ==
    IF ds = <<>> THEN pth
    ELSE path_or_last_default(IF Head(ds) \in exists THEN Head(ds) ELSE "None", Tail(ds))

\* path_or_defaults_if_exist: `pth` is the local path, `ds` the defaults the
\* loop has not visited; the loop breaks once the path is Some, and
\* otherwise sets it to default.exists().then_some(default).
RECURSIVE path_or_defaults_if_exist(_, _)
path_or_defaults_if_exist(pth, ds) ==
    IF ds = <<>> THEN pth
    ELSE IF pth # "None" THEN pth
    ELSE path_or_defaults_if_exist(IF Head(ds) \in exists THEN Head(ds) ELSE "None", Tail(ds))

\* Any path or none, any list of defaults, any set of existing files.
PathStart ==
    /\ path \in Paths \cup {"None"}
    /\ \E n \in 0 .. MaxDefaults : defaults \in [1 .. n -> Paths]
    /\ exists \in SUBSET Paths
    /\ returned_path = "unset"

\* The call of path_or_defaults_if_exist(&path, &defaults).
PathOrDefaultsIfExist ==
    /\ returned_path = "unset"
    /\ returned_path' = path_or_defaults_if_exist(path, defaults)
    /\ UNCHANGED <<path, defaults, exists, num, separated, writeVars, bftVars, roundVars, opsVars, laterVars>>

PathNext == PathOrDefaultsIfExist

PathInit == PathStart /\ SeparatorIdle /\ WriteIdle /\ BftIdle /\ RoundIdle /\ OpsIdle /\ LaterIdle

SpecPath == PathInit /\ [][PathNext]_vars

\* ================================== thousands_separator (SpecSeparator)

\* The arguments tried: every number up to MaxNum, and the numbers around
\* each further power of ten up to 2^31 - 1.
MaxNum == 1100

LargeNums ==
    {9999, 10000, 99999, 100000, 999999, 1000000, 2000000, 9999999, 10000000,
     99999999, 100000000, 123456789, 999999999, 1000000000, 2147483647}

DigitChars == <<"0", "1", "2", "3", "4", "5", "6", "7", "8", "9">>

\* u64::to_string: the decimal digits of n, most significant first.
RECURSIVE to_string(_)
to_string(n) ==
    IF n < 10 THEN <<DigitChars[n + 1]>>
    ELSE Append(to_string(n \div 10), DigitChars[(n % 10) + 1])

\* slice::chunks(size): the chunks from the start, the last one shorter.
RECURSIVE chunks(_, _)
chunks(s, size) ==
    IF Len(s) = 0 THEN <<>>
    ELSE IF Len(s) <= size THEN <<s>>
    ELSE <<SubSeq(s, 1, size)>> \o chunks(SubSeq(s, size + 1, Len(s)), size)

\* slice::rchunks(size): the chunks from the end, the last one yielded
\* (the start of the slice) shorter.
RECURSIVE rchunks(_, _)
rchunks(s, size) ==
    IF Len(s) = 0 THEN <<>>
    ELSE IF Len(s) <= size THEN <<s>>
    ELSE <<SubSeq(s, Len(s) - size + 1, Len(s))>> \o rchunks(SubSeq(s, 1, Len(s) - size), size)

\* Iterator::rev.
rev(s) == [k \in 1 .. Len(s) |-> s[Len(s) + 1 - k]]

\* [&str]::join(sep).
RECURSIVE join(_, _)
join(strs, sep) ==
    IF Len(strs) = 0 THEN <<>>
    ELSE IF Len(strs) = 1 THEN strs[1]
    ELSE strs[1] \o <<sep>> \o join(Tail(strs), sep)

\* Variant: chunks(3) in place of rchunks(3).rev(): groups from the left.
thousands_separator_from_left(n) == join(chunks(to_string(n), 3), ",")

\* thousands_separator.
thousands_separator(n) == join(rev(rchunks(to_string(n), 3)), ",")

SeparatorStart ==
    /\ num \in (0 .. MaxNum) \cup LargeNums
    /\ separated = <<>>

\* The call of thousands_separator(num).
ThousandsSeparator ==
    /\ separated = <<>>
    /\ separated' = thousands_separator(num)
    /\ UNCHANGED <<num, path, defaults, exists, returned_path, writeVars, bftVars, roundVars, opsVars, laterVars>>

SeparatorNext == ThousandsSeparator

SeparatorInit == SeparatorStart /\ PathIdle /\ WriteIdle /\ BftIdle /\ RoundIdle /\ OpsIdle /\ LaterIdle

SpecSeparator == SeparatorInit /\ [][SeparatorNext]_vars

\* ================================= the backoff strategies (SpecBackoff)

\* The delays a strategy may hand out (config.max_retries).
MaxDelays == 2

\* The retried calls of two clients: the metadata and a sliver of node 1,
\* the metadata of node 2.
RetriedCalls == {<<1, "metadata">>, <<1, "sliver">>, <<2, "metadata">>}

\* The seeds a generator may be started with.
Seeds == 1 .. 3

\* No strategy was created for the call yet.
NoStrategy == [min_backoff |-> 0, max_backoff |-> 0, max_retries |-> 0, seed |-> 0,
               sequence_index |-> 0]

\* ExponentialBackoff::new_with_seed: a strategy at the start of its
\* sequence, its generator seeded with `seed`.
new_with_seed(min_backoff, max_backoff, max_retries, seed) ==
    [min_backoff |-> min_backoff, max_backoff |-> max_backoff,
     max_retries |-> max_retries, seed |-> seed, sequence_index |-> 0]

\* Variant: the seed tells the calls of one client apart.
backoff_strategy_per_call(c) ==
    new_with_seed(backoff_config.min_backoff, backoff_config.max_backoff,
                  backoff_config.max_retries, IF c[2] = "sliver" THEN c[1] + 2 ELSE c[1])

\* backoff_strategy of the client of call c: a new strategy from the
\* config, seeded with self.node_index.
backoff_strategy(c) ==
    new_with_seed(backoff_config.min_backoff, backoff_config.max_backoff,
                  backoff_config.max_retries, c[1])

RECURSIVE Pow2(_)
Pow2(k) == IF k = 0 THEN 1 ELSE 2 * Pow2(k - 1)

\* The delay before jitter: min(max_delay, min_delay * 2^attempt).
BaseDelay(b) ==
    LET exp == b.min_backoff * Pow2(b.sequence_index) IN
    IF exp < b.max_backoff THEN exp ELSE b.max_backoff

\* ExponentialBackoff::next_delay while delays are left: the base delay
\* and the jitter its generator yields at this draw.
next_delay(b) == <<BaseDelay(b), generator[<<b.seed, b.sequence_index>>]>>

\* Any deterministic generator; no strategy exists yet.
BackoffStart ==
    /\ generator \in [Seeds \X (0 .. MaxDelays - 1) -> {0, 1}]
    /\ backoff_config \in [min_backoff : {1}, max_backoff : {1, 3}, max_retries : {MaxDelays}]
    /\ strategies = [c \in RetriedCalls |-> NoStrategy]
    /\ delays = [c \in RetriedCalls |-> <<>>]

\* A retried call starts: utils::retry(self.backoff_strategy(), ..).
StartRetry(c) ==
    /\ strategies[c] = NoStrategy
    /\ strategies' = [strategies EXCEPT ![c] = backoff_strategy(c)]
    /\ UNCHANGED <<generator, backoff_config, delays, remoteVars, rpcVars,
                   writeVars, bftVars, roundVars, opsVars, cliVars>>

\* An attempt of the call failed and the strategy hands out its next delay.
NextDelay(c) ==
    LET b == strategies[c] IN
    /\ b # NoStrategy
    /\ b.sequence_index < b.max_retries
    /\ delays' = [delays EXCEPT ![c] = Append(@, next_delay(b))]
    /\ strategies' = [strategies EXCEPT ![c].sequence_index = @ + 1]
    /\ UNCHANGED <<generator, backoff_config, remoteVars, rpcVars,
                   writeVars, bftVars, roundVars, opsVars, cliVars>>

BackoffNext ==
    \/ \E c \in RetriedCalls : StartRetry(c)
    \/ \E c \in RetriedCalls : NextDelay(c)

BackoffInit ==
    /\ BackoffStart /\ RemoteIdle /\ RpcIdle
    /\ WriteIdle /\ BftIdle /\ RoundIdle /\ OpsIdle /\ CliIdle

SpecBackoff == BackoffInit /\ [][BackoffNext]_vars

\* ================================ the remote NodeClient (SpecRemote)

\* The methods of impl NodeClient for StorageNodeClient.
OptionMethods ==
    {"get_and_verify_metadata", "get_and_verify_recovery_symbol",
     "get_invalid_blob_attestation"}

Methods == OptionMethods \cup {"sync_shard"}

\* What the underlying request of the StorageNodeClient may return: Ok with
\* one of two payloads or Err with one of two errors.
Outcomes == {<<"Ok", 1>>, <<"Ok", 2>>, <<"Err", 1>>, <<"Err", 2>>}

\* The method was not called yet.
NotCalled == <<"pending", 0>>

\* Result::ok: Some(payload) of Ok(payload), None of any Err.
ok(r) == IF r[1] = "Ok" THEN <<"Some", r[2]>> ELSE <<"None", 0>>

RemoteStart ==
    /\ node_reply \in [Methods -> Outcomes]
    /\ requests = [m \in Methods |-> 0]
    /\ answer = [m \in Methods |-> NotCalled]

\* Variant: a failed request is sent once more before .ok().
OptionMethodRetrying(m) ==
    /\ m \in OptionMethods
    /\ answer[m] = NotCalled
    /\ requests' = [requests EXCEPT ![m] = IF node_reply[m][1] = "Ok" THEN @ + 1 ELSE @ + 2]
    /\ answer' = [answer EXCEPT ![m] = ok(node_reply[m])]
    /\ UNCHANGED <<node_reply, backoffVars, rpcVars,
                   writeVars, bftVars, roundVars, opsVars, cliVars>>

\* get_and_verify_metadata, get_and_verify_recovery_symbol and
\* get_invalid_blob_attestation: the request of the StorageNodeClient is
\* awaited once and its Result turned into an Option by .ok().
OptionMethod(m) ==
    /\ m \in OptionMethods
    /\ answer[m] = NotCalled
    /\ requests' = [requests EXCEPT ![m] = @ + 1]
    /\ answer' = [answer EXCEPT ![m] = ok(node_reply[m])]
    /\ UNCHANGED <<node_reply, backoffVars, rpcVars,
                   writeVars, bftVars, roundVars, opsVars, cliVars>>

\* sync_shard: the request is awaited once and its Result returned as it is.
SyncShard ==
    /\ answer["sync_shard"] = NotCalled
    /\ requests' = [requests EXCEPT !["sync_shard"] = @ + 1]
    /\ answer' = [answer EXCEPT !["sync_shard"] = node_reply["sync_shard"]]
    /\ UNCHANGED <<node_reply, backoffVars, rpcVars,
                   writeVars, bftVars, roundVars, opsVars, cliVars>>

RemoteNext ==
    \/ \E m \in Methods : OptionMethod(m)
    \/ SyncShard

RemoteInit ==
    /\ RemoteStart /\ BackoffIdle /\ RpcIdle
    /\ WriteIdle /\ BftIdle /\ RoundIdle /\ OpsIdle /\ CliIdle

SpecRemote == RemoteInit /\ [][RemoteNext]_vars

\* ================ get_sui_read_client_from_rpc_node_or_wallet (SpecRpc)

\* The RPC sources a Sui client can be built from: the explicit URL, the
\* wallet configuration, DEFAULT_RPC_URL.
Sources == {"url", "wallet", "default"}

\* The wallet argument: a loaded wallet context or one of two load errors.
Wallets == {<<"Ok", "wallet">>, <<"Err", "no wallet">>, <<"Err", "bad wallet">>}

\* The function has not returned.
NoClient == <<"unset", "unset">>

\* Variant: a loaded wallet is preferred to an explicit URL.
rpc_source_wallet_first(url, w, allow) ==
    IF w[1] = "Ok" THEN "wallet"
    ELSE IF url # "None" THEN "url"
    ELSE IF allow THEN "default"
    ELSE "none"

\* The arm of the match on rpc_url, then on wallet, then on the flag; "none"
\* is the arm Err(e) that builds no client.
rpc_source(url, w, allow) ==
    IF url # "None" THEN "url"
    ELSE IF w[1] = "Ok" THEN "wallet"
    ELSE IF allow THEN "default"
    ELSE "none"

\* .context(..) on a failed connection to source s.
cannot_connect(s) == <<"Err", "cannot connect to " \o s>>

RpcStart ==
    /\ rpc_url \in {"None", "url"}
    /\ wallet \in Wallets
    /\ allow_fallback_to_default \in BOOLEAN
    /\ reachable \in SUBSET Sources
    /\ system_found \in BOOLEAN
    /\ attempted = {}
    /\ read_client = NoClient

\* The whole function: the match selects one arm, the arm connects (or is
\* the wallet's error), ? returns the error, SuiReadClient::new follows.
get_sui_read_client_from_rpc_node_or_wallet ==
    /\ read_client = NoClient
    /\ LET s == rpc_source(rpc_url, wallet, allow_fallback_to_default)
       IN  /\ attempted' = IF s = "none" THEN {} ELSE {s}
           /\ read_client' =
                IF s = "none" THEN <<"Err", wallet[2]>>
                ELSE IF s \notin reachable THEN cannot_connect(s)
                ELSE IF ~system_found THEN <<"Err", "system object not found">>
                ELSE <<"Ok", s>>
    /\ UNCHANGED <<rpc_url, wallet, allow_fallback_to_default, reachable, system_found,
                   backoffVars, remoteVars,
                   writeVars, bftVars, roundVars, opsVars, cliVars>>

RpcNext == get_sui_read_client_from_rpc_node_or_wallet

RpcInit ==
    /\ RpcStart /\ BackoffIdle /\ RemoteIdle
    /\ WriteIdle /\ BftIdle /\ RoundIdle /\ OpsIdle /\ CliIdle

SpecRpc == RpcInit /\ [][RpcNext]_vars

\* ================================================================ claims

Finished(p) == stage[p] \in {"returned", "cancelled"}

\* Request t is suspended in acquire_owned of the named limit.
WaitingFor(t, limit) ==
    \/ phase[t] = "waitOuter" /\ OuterLimit(t) = limit
    \/ phase[t] = "waitInner" /\ InnerLimit(t) = limit

ConfiguredCapacity(s) ==
    IF s = GlobalSem THEN config.global_connections ELSE config.max_node_connections

\* C1: under every interleaving of the store_metadata and store_sliver
\* requests of all peer clients, the available permits of the global
\* semaphore and of every per-peer semaphore stay within 0..capacity.
C1_PermitsWithinCapacity ==
    \A s \in Sems : 0 <= permits[s] /\ permits[s] <= ConfiguredCapacity(s)

\* C1 witness: the global limiter is exhausted by a request in flight while a
\* request of the other peer, holding its peer's permit, waits for it, and a
\* third request waits for the exhausted per-peer limiter.
C1_Witness ==
    /\ permits[GlobalSem] = 0
    /\ \E t, u, v \in Tasks :
        /\ PeerOf(t) # PeerOf(u)
        /\ phase[t] = "call"
        /\ WaitingFor(u, "global")
        /\ PeerOf(v) = PeerOf(u)
        /\ WaitingFor(v, "node")
        /\ permits[NodeSem(PeerOf(v))] = 0

\* C2: the per-peer permit is acquired first and the global permit is
\* requested only after it was granted: a request that holds or awaits a
\* global permit holds its peer's permit, and a request waiting for its
\* per-peer permit holds no global permit.
C2_PeerPermitFirst ==
    \A t \in Tasks :
        /\ "global" \in held[t] => "node" \in held[t]
        /\ WaitingFor(t, "global") => "node" \in held[t]
        /\ WaitingFor(t, "node") => "global" \notin held[t]

\* C2 witness: a sliver request waits for the busy per-peer limiter, holding
\* nothing, while the request of the other peer holds both of its permits.
C2_Witness ==
    \E t, u \in Tasks :
        /\ t[2] # "metadata"
        /\ WaitingFor(t, "node")
        /\ permits[NodeSem(PeerOf(t))] = 0
        /\ held[t] = {}
        /\ PeerOf(u) # PeerOf(t)
        /\ held[u] = {"global", "node"}

\* C3: every permit acquired by an attempt is given back on every exit
\* path, the global one before the per-peer one: a request whose call has
\* returned holds at most its per-peer permit, a request that is not inside
\* an attempt holds none, and once every operation has returned or was
\* cancelled every semaphore is back at its capacity.
C3_PermitsReleased ==
    /\ \A t \in Tasks :
        /\ phase[t] \in {"releaseOk", "releaseErr"} => held[t] = {"node"}
        /\ phase[t] \in {"idle", "backoff", "ok", "failed", "dropped"} => held[t] = {}
    /\ \A p \in Peers :
        Finished(p) => \A t \in Tasks : PeerOf(t) = p => held[t] = {}
    /\ (\A p \in Peers : Finished(p)) =>
        \A s \in Sems : permits[s] = ConfiguredCapacity(s)

\* C3 witness: both operations are over, one by cancellation and one by a
\* sliver error that dropped a sibling whose request had been sent and had
\* not failed (it held a permit when it was dropped).
C3_Witness ==
    /\ \A p \in Peers : Finished(p)
    /\ \E p \in Peers : stage[p] = "cancelled" /\ calls[MetaTask(p)] > fails[MetaTask(p)]
                        /\ phase[MetaTask(p)] = "dropped"
    /\ \E p \in Peers : /\ result[p].kind = "SliverStore"
                        /\ \E t \in SliverTasks(p) :
                            phase[t] = "dropped" /\ calls[t] > fails[t]

\* C4: while every store_metadata call to a peer has failed, no sliver and
\* no confirmation request was issued to it, at most max_retries + 1
\* metadata attempts were made, no attempt follows the last failure, and
\* the operation, once returned, gave Err(StoreError::Metadata).
C4_MetadataAlwaysFails ==
    \A p \in Peers :
        LET m == MetaTask(p) IN
        /\ calls[m] <= MaxRetries + 1
        /\ fails[m] = MaxRetries + 1 => phase[m] \in {"releaseErr", "failed", "dropped"}
        /\ (fails[m] = calls[m] \/ phase[m] = "call") =>
            /\ \A t \in Tasks : PeerOf(t) = p /\ t # m => calls[t] = 0
            /\ confCalls[p] = 0
            /\ stage[p] = "returned" =>
                /\ result[p].kind = "Metadata"
                /\ fails[m] = MaxRetries + 1

\* C4 witness: an operation with pairs to store returned after max_retries + 1
\* failed metadata attempts.
C4_Witness ==
    \E p \in Peers :
        /\ pairs[p] # {}
        /\ stage[p] = "returned"
        /\ fails[MetaTask(p)] = MaxRetries + 1
        /\ result[p].kind = "Metadata"

\* C5: the sliver named in a returned SliverStoreError is one whose
\* max_retries + 1 attempts all failed, never a stored one; and when the
\* metadata was stored, one sliver never succeeded and no other sliver ever
\* failed, the operation returns the SliverStoreError naming that sliver.
C5_SliverErrorIdentity ==
    \A p \in Peers :
        /\ result[p].kind = "SliverStore" =>
            LET t == <<p, result[p].axis, result[p].pair>> IN
            /\ t \in SliverTasks(p)
            /\ phase[t] = "failed"
            /\ fails[t] = MaxRetries + 1
            /\ calls[t] = fails[t]
        /\ \A t \in SliverTasks(p) :
            ( /\ stage[p] = "returned"
              /\ phase[MetaTask(p)] = "ok"
              /\ phase[t] # "ok"
              /\ \A u \in SliverTasks(p) \ {t} : fails[u] = 0 )
            => /\ result[p].kind = "SliverStore"
               /\ result[p].pair = t[3]
               /\ result[p].axis = t[2]

\* C5 witness: the secondary sliver of pair 2 failed on every attempt, the
\* primary one never failed, and the operation returned.
C5_Witness ==
    \E p \in Peers :
        /\ stage[p] = "returned"
        /\ pairs[p] = {2}
        /\ fails[<<p, "secondary", 2>>] = MaxRetries + 1
        /\ fails[<<p, "primary", 2>>] = 0
        /\ result[p] = SliverError(<<p, "secondary", 2>>, MaxRetries + 1)

\* C6: no store_sliver request is issued before a store_metadata attempt
\* succeeded, and the confirmation is requested only after every sliver of
\* every pair handed in was stored.
C6_StageOrder ==
    \A p \in Peers :
        /\ \A t \in Tasks :
            (PeerOf(t) = p /\ t # MetaTask(p) /\ calls[t] > 0) =>
                t \in SliverTasks(p) /\ phase[MetaTask(p)] = "ok"
        /\ confCalls[p] > 0 =>
            /\ phase[MetaTask(p)] = "ok"
            /\ \A t \in SliverTasks(p) : phase[t] = "ok"

\* C6 witness: the confirmation was requested for an operation with a pair,
\* whose secondary sliver needed fewer requests than its primary one.
C6_Witness ==
    \E p \in Peers :
        /\ pairs[p] # {}
        /\ confCalls[p] = 1
        /\ \E k \in pairs[p] : calls[<<p, "secondary", k>>] < calls[<<p, "primary", k>>]

\* C7: an operation issues at most one get_and_verify_confirmation request,
\* and when the peer answers it with an error the operation has returned
\* Err(StoreError::Confirmation).
C7_ConfirmationNotRetried ==
    \A p \in Peers :
        /\ confCalls[p] <= 1
        /\ confReply[p] = "error" =>
            stage[p] = "returned" /\ result[p] = ConfirmationError
        /\ result[p].kind = "Confirmation" => confReply[p] = "error"

\* C7 witness: the single confirmation request failed.
C7_Witness ==
    \E p \in Peers :
        confCalls[p] = 1 /\ confReply[p] = "error" /\ result[p] = ConfirmationError

C9_BftThresholds ==
    two_f_plus_1 # 0 =>
        /\ 3 * f <= n_shards - 1 /\ n_shards - 1 < 3 * (f + 1)
        /\ two_f_plus_1 = 2 * f + 1
        /\ two_f_plus_1 <= n_shards
        /\ min_correct = n_shards - f
        /\ min_correct >= two_f_plus_1 - f

\* C9 witness: the figures of the largest shard count were printed.
C9_Witness == n_shards = MaxShards /\ two_f_plus_1 = 43689 /\ min_correct = 43691

\* The weight of the nodes on which the operation succeeds.
RECURSIVE SumOwned(_)
SumOwned(S) ==
    IF S = {} THEN 0
    ELSE LET i == CHOOSE x \in S : TRUE IN
         Cardinality(shard_ids[i]) + SumOwned(S \ {i})

TotalOk == SumOwned({i \in Nodes : fate[i]})

\* C10: in every arrival order of the results, the aggregator does not
\* declare success when the successful weights sum to less than the quorum
\* (quorum - 1 included), and when they sum to the quorum or more it never
\* declares failure and declares success by the time every result is in.
C10_QuorumAnyOrder ==
    /\ TotalOk < Quorum => decision # "success"
    /\ TotalOk >= Quorum =>
        \/ decision = "success"
        \/ /\ decision = "undecided"
           /\ \E i \in Nodes : shard_ids[i] # {} /\ i \notin arrived

\* C10 witness: the successes sum to exactly quorum - 1, all of them have
\* arrived, in two results, and the aggregator declared failure.
C10_Witness ==
    /\ TotalOk = Quorum - 1
    /\ okWeight = Quorum - 1
    /\ Cardinality({i \in arrived : fate[i]}) = 2
    /\ decision = "failure"

\* The weight of the successes that have arrived, and the weight of the
\* nodes whose result has not arrived.
ArrivedOk == SumOwned({i \in arrived : fate[i]})

StillPending == SumOwned(Nodes \ arrived)

\* C11: the aggregator has declared failure exactly when the weight still
\* pending plus the successful weight received is below the quorum, and
\* success exactly when the successful weight received has reached the
\* quorum, so never both; on 10 shards split evenly over 5 nodes the quorum
\* is 7, four successful results received mean success, and three
\* successful with two failed results received mean failure.
C11_FailureRule ==
    /\ decision = "failure" <=> ArrivedOk + StillPending < Quorum
    /\ decision = "success" <=> ArrivedOk >= Quorum
    /\ ~(ArrivedOk + StillPending < Quorum /\ ArrivedOk >= Quorum)
    /\ shard_ids = EvenCommittee =>
        LET nOk == Cardinality({i \in arrived : fate[i]})
            nErr == Cardinality({i \in arrived : ~fate[i]})
        IN
        /\ Quorum = 7 /\ max_n_faulty(n_shards) = 3
        /\ nOk >= 4 => decision = "success"
        /\ (nOk = 3 /\ nErr = 2) => decision = "failure"
        /\ Cardinality({i \in Nodes : fate[i]}) >= 4 => decision # "failure"

\* C11 witness: on the even committee both cases of the scenario happen
\* (in different rounds); this is the one that ends in failure with three
\* successes and two failures received.
C11_Witness ==
    /\ shard_ids = EvenCommittee
    /\ Cardinality({i \in arrived : fate[i]}) = 3
    /\ Cardinality({i \in arrived : ~fate[i]}) = 2
    /\ decision = "failure"

\* The other case of the scenario: four successes received, success.
C11_SuccessReached ==
    /\ shard_ids = EvenCommittee
    /\ Cardinality({i \in arrived : fate[i]}) = 4
    /\ decision = "success"

\* C13 as stated: when store_pairs returns the error of one sliver, a
\* sibling store_sliver request that is in flight is not aborted: it is
\* still in flight after the return.
C13_SiblingsLeftRunning ==
    [][\A t \in Tasks :
        ( /\ t[2] # "metadata"
          /\ phase[t] = "call"
          /\ stage[PeerOf(t)] = "pairs"
          /\ stage'[PeerOf(t)] = "returned" )
        => phase'[t] = "call"]_vars

\* C13: store_pairs returns the error of a sliver out of retries in the
\* step that yields it, whatever its siblings are doing; the return drops
\* the sibling futures: a sibling that was not stored is dropped, holds no
\* permit, issues no further request and never completes, and the result
\* names the failed sliver only.
C13_SiblingsDropped ==
    /\ [](\A t \in Tasks :
            LET p == PeerOf(t) IN
            (t[2] # "metadata" /\ phase[t] = "failed") =>
                /\ stage[p] = "returned"
                /\ result[p] = SliverError(t, calls[t])
                /\ \A u \in SliverTasks(p) \ {t} :
                    /\ phase[u] \in {"ok", "dropped"}
                    /\ held[u] = {})
    /\ [][\A t \in Tasks :
            phase[t] = "dropped" =>
                /\ phase'[t] = "dropped"
                /\ calls'[t] = calls[t]
                /\ fails'[t] = fails[t]]_vars

\* C13 witness: store_pairs returned the error of one sliver while the
\* request of its sibling was in flight (sent, not failed, not stored), and
\* the sibling was dropped.
C13_Witness ==
    \E p \in Peers :
        \E t, u \in SliverTasks(p) :
            /\ result[p] = SliverError(t, MaxRetries + 1)
            /\ phase[u] = "dropped"
            /\ calls[u] = fails[u] + 1
            /\ config.max_node_connections = 2

\* What belongs to the operation on peer p alone.
Local(p) ==
    <<stage[p], result[p], confCalls[p], confReply[p], reads[p],
      [t \in {u \in Tasks : PeerOf(u) = p} |-> <<phase[t], calls[t], fails[t], held[t]>>]>>

\* The result the outcomes of p's own requests determine.
OwnResult(p) ==
    LET m == MetaTask(p) IN
    IF phase[m] = "failed" THEN MetadataError(calls[m])
    ELSE IF \E t \in SliverTasks(p) : phase[t] = "failed"
         THEN LET t == CHOOSE u \in SliverTasks(p) : phase[u] = "failed" IN
              SliverError(t, calls[t])
    ELSE IF confReply[p] = "ok" THEN OkConfirmation
    ELSE ConfirmationError

\* A step of the operation on peer p other than its cancellation.
OwnStep(p) ==
    \/ \E t \in TasksOf(p) :
        \/ AcquireOuter(t) \/ AcquireInner(t) \/ Wake(t) \/ RetryAfterFailure(t)
        \/ SliverStored(t) \/ SliverFailed(t)
        \/ \E success \in BOOLEAN : CompleteCall(t, success)
    \/ MetadataStored(p) \/ MetadataFailed(p) \/ RequestConfirmation(p)
    \/ RetrieveVerifiedMetadata(p) \/ RetrieveVerifiedSliver(p)
    \/ \E kind \in ReadKinds : CompleteRead(p, kind)
    \/ \E success \in BOOLEAN : CompleteConfirmation(p, success)

\* C14: no step changes what belongs to two operations, so the failure of
\* one peer's requests aborts nothing of a sibling peer; an operation whose
\* siblings are all over can still take a step of its own; the result an
\* operation returns is the one its own requests determine, it is returned
\* once and is a value (Ok or one of the three StoreError kinds).
C14_PeerIsolation ==
    /\ [][\A p, q \in Peers :
            p # q => ~(Local(p)' # Local(p) /\ Local(q)' # Local(q))]_vars
    /\ [][\A p \in Peers : result[p] # NoResult => result'[p] = result[p]]_vars
    /\ [](\A p \in Peers :
            /\ stage[p] = "returned" <=> result[p] # NoResult
            /\ stage[p] = "returned" =>
                /\ result[p] = OwnResult(p)
                /\ result[p].kind \in {"Ok", "Metadata", "SliverStore", "Confirmation"}
            /\ (~Finished(p) /\ \A q \in Peers \ {p} : Finished(q)) =>
                ENABLED OwnStep(p))

\* C14 witness: the operation on one peer returned a store error and the
\* operation on the other peer, none of whose requests failed, returned Ok.
C14_Witness ==
    \E p, q \in Peers :
        /\ p # q
        /\ result[p].kind \in {"Metadata", "SliverStore"}
        /\ result[q] = OkConfirmation
        /\ fails[MetaTask(q)] = 0

\* C17: a request that was stored after k <= max_retries failed attempts
\* reports nothing and the pipeline goes on past it; an operation returns
\* Err only when one of its requests failed max_retries + 1 times or its
\* confirmation failed, and returns Ok when neither happened.
C17_OnlyTerminalFailures ==
    \A p \in Peers :
        LET m == MetaTask(p)
            exhausted == {t \in TasksOf(p) : phase[t] = "failed"}
        IN
        /\ \A t \in TasksOf(p) :
            /\ phase[t] = "ok" =>
                /\ fails[t] <= MaxRetries
                /\ calls[t] = fails[t] + 1
                /\ result[p] \notin {MetadataError(e) : e \in 1 .. calls[t]}
                /\ result[p] \notin {SliverError(t, e) : e \in 1 .. calls[t]}
            /\ phase[t] = "failed" => fails[t] = MaxRetries + 1
        /\ phase[m] = "ok" => stage[p] # "metadata"
        /\ (\A t \in SliverTasks(p) : phase[t] = "ok") => stage[p] # "pairs"
        /\ result[p].kind \in {"Metadata", "SliverStore"} => exhausted # {}
        /\ result[p].kind = "Confirmation" => confReply[p] = "error"
        /\ (stage[p] = "returned" /\ exhausted = {} /\ confReply[p] # "error") =>
            result[p] = OkConfirmation

\* C17 witness: the metadata and a sliver were each stored on the last
\* attempt allowed, after max_retries failures, and the operation returned Ok.
C17_Witness ==
    \E p \in Peers :
        /\ result[p] = OkConfirmation
        /\ fails[MetaTask(p)] = MaxRetries
        /\ \E t \in SliverTasks(p) : fails[t] = MaxRetries /\ phase[t] = "ok"

\* C18: the cause inside a returned StoreError::Metadata or SliverStoreError
\* is the NodeError of the last attempt, the (max_retries + 1)-th request,
\* and of no earlier one.
C18_LastErrorVerbatim ==
    \A p \in Peers :
        /\ result[p].kind = "Metadata" =>
            /\ result[p].error = MaxRetries + 1
            /\ result[p].error = calls[MetaTask(p)]
        /\ result[p].kind = "SliverStore" =>
            /\ result[p].error = MaxRetries + 1
            /\ result[p].error = calls[<<p, result[p].axis, result[p].pair>>]

\* C18 witness: one operation returned a metadata error and the other a
\* sliver error, each after max_retries + 1 requests.
C18_Witness ==
    \E p, q \in Peers :
        /\ result[p] = MetadataError(MaxRetries + 1)
        /\ calls[MetaTask(p)] = MaxRetries + 1
        /\ result[q].kind = "SliverStore"
        /\ result[q].error = MaxRetries + 1

\* The store_metadata and store_sliver requests in flight, and every
\* request in flight: those, the confirmation requests and the reads.
StoreCallsInFlight(ps) == Cardinality({t \in Tasks : PeerOf(t) \in ps /\ phase[t] = "call"})

RECURSIVE ReadsInFlight(_)
ReadsInFlight(ps) ==
    IF ps = {} THEN 0
    ELSE LET p == CHOOSE q \in ps : TRUE IN
         Cardinality(reads[p]) + ReadsInFlight(ps \ {p})

CallsInFlight(ps) ==
    StoreCallsInFlight(ps)
    + Cardinality({p \in ps : stage[p] = "confirming"})
    + ReadsInFlight(ps)

\* C15 as stated: the requests in flight of all clients, reads and
\* confirmation requests included, never exceed the global capacity, and
\* those to one node never exceed max_node_connections.
C15_EveryCallGated ==
    /\ CallsInFlight(Peers) <= config.global_connections
    /\ \A p \in Peers : CallsInFlight({p}) <= config.max_node_connections

\* C15: the store_metadata and store_sliver requests, and only they, are
\* admitted through both gates: those in flight never exceed the global
\* capacity, those to one node never exceed max_node_connections, and
\* every permit missing from a semaphore is held by one of them; the
\* confirmation request and the two reads are sent whatever the permits.
C15_StoreCallsGated ==
    /\ StoreCallsInFlight(Peers) <= config.global_connections
    /\ \A p \in Peers :
        /\ StoreCallsInFlight({p}) <= config.max_node_connections
        /\ permits[NodeSem(p)] + Cardinality({t \in Tasks : PeerOf(t) = p /\ "node" \in held[t]})
            = config.max_node_connections
        /\ stage[p] = "confirmation" => ENABLED RequestConfirmation(p)
        /\ (stage[p] = "reading" /\ "metadata" \notin reads[p]) =>
            ENABLED RetrieveVerifiedMetadata(p)
        /\ (stage[p] = "reading" /\ "sliver" \notin reads[p]) =>
            ENABLED RetrieveVerifiedSliver(p)
    /\ permits[GlobalSem] + Cardinality({t \in Tasks : "global" \in held[t]})
        = config.global_connections

\* C15 witness: the store requests in flight use up the global capacity
\* while both reads of the other client are in flight.
C15_Witness ==
    \E p \in Peers :
        /\ reads[p] = ReadKinds
        /\ StoreCallsInFlight(Peers) = config.global_connections
        /\ permits[GlobalSem] = 0

\* A confirmation request in flight while the store request of the other
\* client holds the only global permit.
C15_ConfirmationUngated ==
    \E p, q \in Peers :
        /\ stage[p] = "confirming"
        /\ phase[MetaTask(q)] = "call"
        /\ permits[GlobalSem] = 0

\* C16: the NodeResult an operation of a client returns carries the
\* client's epoch and node index, the outcome of the request, and a weight
\* of at least 1 fixed by the operation alone: 1 for retrieve_verified_sliver
\* and the number of shards the node owns for retrieve_verified_metadata
\* and store_metadata_and_pairs, on success and on failure alike.
C16_WeightByOperation ==
    emitted # NoEmission =>
        LET i == emitted.node
            r == emitted.r
        IN
        /\ r[1] = Epoch
        /\ r[3] = i
        /\ inner_result(r) = fate[i]
        /\ weight(r) >= 1
        /\ weight(r) = IF emitted.op = "retrieve_verified_sliver"
                       THEN 1 ELSE Cardinality(shard_ids[i])

\* C16 witness: on a node owning three shards the store operation failed
\* and returned the weight 3.
C16_Witness ==
    /\ emitted.op = "store_metadata_and_pairs"
    /\ Cardinality(shard_ids[emitted.node]) = 3
    /\ emitted.r = <<Epoch, 3, emitted.node, FALSE>>

\* A failed sliver retrieval on a node owning three shards weighs 1.
C16_SliverWeighsOne ==
    /\ emitted.op = "retrieve_verified_sliver"
    /\ Cardinality(shard_ids[emitted.node]) = 3
    /\ emitted.r = <<Epoch, 1, emitted.node, FALSE>>

\* The places of the defaults that exist.
ExistingDefaults == {k \in 1 .. Len(defaults) : defaults[k] \in exists}

\* C19: path_or_defaults_if_exist returns the path given whenever there is
\* one, existing or not; given none it returns the first default, in list
\* order, that exists; it returns None exactly when no path was given and
\* no default exists.
C19_PathOrFirstExistingDefault ==
    returned_path # "unset" =>
        /\ path # "None" => returned_path = path
        /\ (path = "None" /\ ExistingDefaults # {}) =>
            \E k \in ExistingDefaults :
                /\ returned_path = defaults[k]
                /\ \A j \in ExistingDefaults : k <= j
        /\ returned_path = "None" <=> (path = "None" /\ ExistingDefaults = {})

\* C19 witness: no path given, the first default does not exist, the second
\* and the third, a different one, do, and the second was returned.
C19_Witness ==
    /\ path = "None"
    /\ Len(defaults) = 3
    /\ ExistingDefaults = {2, 3}
    /\ defaults[2] # defaults[3]
    /\ returned_path = defaults[2]

\* A path that does not exist was given, an existing default too, and the
\* path was returned.
C19_GivenPathUnchecked ==
    /\ path \in Paths \ exists
    /\ ExistingDefaults # {}
    /\ returned_path = path

IsDigit(c) == c # ","

\* The number a sequence of decimal digits reads as.
RECURSIVE ParseDecimal(_)
ParseDecimal(s) ==
    IF Len(s) = 0 THEN 0
    ELSE 10 * ParseDecimal(SubSeq(s, 1, Len(s) - 1))
         + (CHOOSE d \in 0 .. 9 : DigitChars[d + 1] = s[Len(s)])

\* C20: the string thousands_separator returns is the decimal digits of num
\* (without the commas it reads as num, with no leading zero) with a comma
\* before each group of three counted from the right: the first group has
\* 1 to 3 digits and every later one exactly 3.
C20_GroupsOfThree ==
    separated # <<>> =>
        LET digits == SelectSeq(separated, IsDigit)
            len == Len(separated)
        IN
        /\ \A k \in 1 .. len : separated[k] \in {DigitChars[d] : d \in 1 .. 10} \cup {","}
        /\ ParseDecimal(digits) = num
        /\ Len(digits) > 1 => digits[1] # "0"
        /\ separated[1] # ","
        /\ \A k \in 1 .. len : separated[k] = "," <=> (len - k) % 4 = 3

\* C20 witness: 123456789 gave "123,456,789".
C20_Witness ==
    /\ num = 123456789
    /\ separated = <<"1", "2", "3", ",", "4", "5", "6", ",", "7", "8", "9">>

\* 1000 gave "1,000".
C20_OneThousand == num = 1000 /\ separated = <<"1", ",", "0", "0", "0">>

\* C21: a retried request holds permits only inside an attempt: while it
\* sleeps between two attempts it holds neither permit, the next attempt
\* starts with none and acquires both, and the request is sent holding both.
C21_NoPermitWhileSleeping ==
    \A t \in Tasks :
        /\ phase[t] = "backoff" =>
            /\ held[t] = {}
            /\ fails[t] >= 1 /\ fails[t] <= MaxRetries
            /\ calls[t] = fails[t]
        /\ phase[t] = "waitOuter" => held[t] = {}
        /\ phase[t] = "waitInner" => held[t] = {OuterLimit(t)}
        /\ phase[t] = "call" => held[t] = {"global", "node"}

\* C21 witness: a request sleeps after a failed attempt while a request to
\* the same node, which allows one connection, is in flight holding the
\* only global permit.
C21_Witness ==
    \E t, u \in Tasks :
        /\ t # u /\ PeerOf(t) = PeerOf(u)
        /\ phase[t] = "backoff"
        /\ phase[u] = "call"
        /\ config = [max_node_connections |-> 1, global_connections |-> 1]

\* The operation on peer p is a store_metadata_and_pairs still pending.
Running(p) == stage[p] \notin {"returned", "cancelled", "reading"}

\* C22: with every capacity at least 1, while a store_metadata_and_pairs
\* is pending some step of the pending operations is possible (they are
\* never all blocked on permits), and under a fair runtime every operation
\* eventually returns its result unless its caller drops it first.
C22_EveryOperationReturns ==
    /\ []((\E p \in Peers : Running(p)) => ENABLED Progress)
    /\ \A p \in Peers : Running(p) ~> Finished(p)

\* C22 witness: both operations returned, one of them after its stream of
\* slivers had to share a single connection and a single global permit.
C22_Witness ==
    /\ config = [max_node_connections |-> 1, global_connections |-> 1]
    /\ \A p \in Peers : stage[p] = "returned"
    /\ \E p \in Peers : pairs[p] # {} /\ result[p] = OkConfirmation

\* The global permits held by the requests to peer p.
GlobalHeldBy(p) == Cardinality({t \in Tasks : PeerOf(t) = p /\ "global" \in held[t]})

\* C23: the semaphore of a node changes only in steps of that node's own
\* client, and the requests to one peer never hold more than
\* max_node_connections global permits, whatever the other client does.
C23_GlobalShareOfPeer ==
    /\ [](\A p \in Peers : GlobalHeldBy(p) <= config.max_node_connections)
    /\ [][\A p \in Peers :
            permits'[NodeSem(p)] # permits[NodeSem(p)] =>
                /\ Local(p)' # Local(p)
                /\ \A q \in Peers \ {p} : Local(q)' = Local(q)]_vars

\* C23 witness: a node allows one connection and two global permits exist:
\* the request to it in flight holds one global permit, the other global
\* permit is free, and a sibling request waits for the node's permit.
C23_Witness ==
    \E t, u \in Tasks :
        /\ PeerOf(t) = PeerOf(u)
        /\ config = [max_node_connections |-> 1, global_connections |-> 2]
        /\ phase[t] = "call"
        /\ WaitingFor(u, "node")
        /\ permits[GlobalSem] = 1
        /\ GlobalHeldBy(PeerOf(t)) = 1

\* C24: every retried call of a client starts a strategy made of the
\* config and the client's node index, at the start of its sequence; the
\* delays handed out to a call are those the config, the node index and
\* the generator determine, so that two calls of one client see the same
\* delays as far as both have got.
C24_BackoffDeterministic ==
    \A c \in RetriedCalls :
        LET b == strategies[c] IN
        /\ b # NoStrategy =>
            /\ b.seed = c[1]
            /\ b.min_backoff = backoff_config.min_backoff
            /\ b.max_backoff = backoff_config.max_backoff
            /\ b.max_retries = backoff_config.max_retries
            /\ b.sequence_index = Len(delays[c])
        /\ Len(delays[c]) <= backoff_config.max_retries
        /\ \A k \in 1 .. Len(delays[c]) :
            /\ delays[c][k][2] = generator[<<c[1], k - 1>>]
            /\ \A d \in RetriedCalls :
                (d[1] = c[1] /\ k <= Len(delays[d])) => delays[d][k] = delays[c][k]

\* C24 witness: the two calls of node 1 both ran out of delays and saw the
\* same two delays, which differ from each other and from the delays the
\* call of node 2 saw.
C24_Witness ==
    LET m == <<1, "metadata">>
        v == <<1, "sliver">>
        o == <<2, "metadata">>
    IN
    /\ Len(delays[m]) = MaxDelays /\ Len(delays[v]) = MaxDelays /\ Len(delays[o]) = MaxDelays
    /\ delays[m] = delays[v]
    /\ delays[m][1] # delays[m][2]
    /\ delays[o] # delays[m]

\* The store_sliver requests issued to peer p.
RECURSIVE SumCalls(_)
SumCalls(ts) ==
    IF ts = {} THEN 0
    ELSE LET t == CHOOSE u \in ts : TRUE IN calls[t] + SumCalls(ts \ {t})

SliverRequests(p) == SumCalls({t \in Tasks : PeerOf(t) = p /\ t[2] # "metadata"})

\* C25: store_pairs runs two requests per pair, the primary and the
\* secondary sliver, each counting its own attempts: a sliver is requested
\* at most max_retries + 1 times, the failure of one changes no counter of
\* another, a peer is sent at most 2 * |pairs| * (max_retries + 1)
\* store_sliver requests, and with no pairs it is sent none and the
\* confirmation is requested right after the metadata was stored.
C25_TwoTasksPerPair ==
    /\ [](\A p \in Peers :
            /\ Cardinality(SliverTasks(p)) = 2 * Cardinality(pairs[p])
            /\ \A k \in pairs[p] : \A ax \in {"primary", "secondary"} :
                    <<p, ax, k>> \in SliverTasks(p)
            /\ stage[p] \in {"pairs", "confirmation", "confirming"} =>
                    \A t \in SliverTasks(p) : phase[t] # "idle"
            /\ \A t \in Tasks : PeerOf(t) = p /\ t[2] # "metadata" =>
                    /\ fails[t] <= calls[t]
                    /\ calls[t] <= MaxRetries + 1
                    /\ t \notin SliverTasks(p) => calls[t] = 0
            /\ SliverRequests(p) <= 2 * Cardinality(pairs[p]) * (MaxRetries + 1)
            /\ pairs[p] = {} => SliverRequests(p) = 0 /\ stage[p] # "pairs")
    /\ [][\A t \in Tasks :
            fails'[t] # fails[t] =>
                \A u \in Tasks \ {t} : calls'[u] = calls[u] /\ fails'[u] = fails[u]]_vars
    /\ [][\A p \in Peers :
            (stage[p] = "metadata" /\ phase'[MetaTask(p)] = "ok") =>
                stage'[p] = IF pairs[p] = {} THEN "confirmation" ELSE "pairs"]_vars

\* C25 witness: both slivers of the pair were requested max_retries + 1
\* times, and the peer without pairs had its confirmation requested.
C25_Witness ==
    \E p, q \in Peers :
        /\ pairs[p] # {}
        /\ SliverRequests(p) = 2 * Cardinality(pairs[p]) * (MaxRetries + 1)
        /\ pairs[q] = {} /\ confCalls[q] = 1 /\ stage[q] = "confirming"

\* C26: a method of the remote adapter that has returned issued exactly one
\* request, whatever the answer, and one that has not issued none; the
\* three Option methods return Some(payload) exactly when the request gave
\* Ok(payload) and None on either error; sync_shard returns the Ok or the
\* Err of its request unchanged.
C26_OneRequestNoRetry ==
    \A m \in Methods :
        /\ requests[m] = IF answer[m] = NotCalled THEN 0 ELSE 1
        /\ (answer[m] # NotCalled /\ m \in OptionMethods) =>
            /\ answer[m][1] \in {"Some", "None"}
            /\ answer[m][1] = "Some" <=> node_reply[m][1] = "Ok"
            /\ answer[m][1] = "Some" => answer[m][2] = node_reply[m][2]
            /\ node_reply[m][1] = "Err" => answer[m] = <<"None", 0>>
        /\ (answer[m] # NotCalled /\ m = "sync_shard") => answer[m] = node_reply[m]

\* C26 witness: every method was called; the metadata request failed and
\* gave None, the symbol request gave its payload, sync_shard gave its error.
C26_Witness ==
    /\ \A m \in Methods : requests[m] = 1
    /\ node_reply["get_and_verify_metadata"] = <<"Err", 2>>
    /\ answer["get_and_verify_metadata"] = <<"None", 0>>
    /\ answer["get_and_verify_recovery_symbol"] = <<"Some", 2>>
    /\ answer["sync_shard"] = <<"Err", 2>>

\* C27: get_sui_read_client_from_rpc_node_or_wallet connects to at most one
\* source, chosen by strict priority: the explicit rpc_url whenever it is
\* Some, whatever the wallet; otherwise the wallet when it is Ok; otherwise
\* the default URL exactly when allow_fallback_to_default holds; and when it
\* does not, no connection is attempted and the wallet's own error is
\* returned. A client that is returned is the one of the chosen source.
C27_SourceByPriority ==
    /\ read_client = NoClient => attempted = {}
    /\ read_client # NoClient =>
        /\ rpc_url # "None" => attempted = {"url"}
        /\ (rpc_url = "None" /\ wallet[1] = "Ok") => attempted = {"wallet"}
        /\ (rpc_url = "None" /\ wallet[1] = "Err") =>
            /\ "default" \in attempted <=> allow_fallback_to_default
            /\ allow_fallback_to_default => attempted = {"default"}
            /\ ~allow_fallback_to_default =>
                 attempted = {} /\ read_client = <<"Err", wallet[2]>>
        /\ read_client[1] = "Ok" => attempted = {read_client[2]}

\* C27 witness: an explicit URL and a loaded wallet, both reachable, and the
\* client returned is the one of the URL.
C27_Witness ==
    /\ rpc_url = "url" /\ wallet[1] = "Ok" /\ Sources \subseteq reachable
    /\ attempted = {"url"}
    /\ read_client = <<"Ok", "url">>

====
